---- MODULE Spec2Model ----
(***************************************************************************)
(* Model of src/src/app/App.tsx: the App view switcher (currentView,       *)
(* isTransitioning, pendingView, [page, direction]) and the                *)
(* TransitionOverlay effect (canvas, particle field, repaint loop, the     *)
(* 400ms and 800ms timers and the effect cleanup).                         *)
(*                                                                         *)
(* One action is one task of the browser event loop: an event handler or   *)
(* timer callback together with the React render, commit and effect run    *)
(* that its state updates cause (React 18 batches the updates of one       *)
(* callback into one render).  Handlers and timer callbacks read the       *)
(* state of the latest render: the timers call onMiddleRef.current and     *)
(* onEndRef.current, which every render refreshes (lines 189-190).         *)
(*                                                                         *)
(* Real numbers (speed, depth) are kept as integers in units of 1/Scale;   *)
(* Scale is chosen so that 0.5 and MaxDecay successive products by 0.8     *)
(* are exact.  A particle is modelled by its depth z: x and y only select  *)
(* the pixel that is painted, and painting is output that no state reads.  *)
(* The viewport width is taken positive.  The child views are not part of  *)
(* the source, so a handler may be called in any state of App.             *)
(***************************************************************************)
EXTENDS Integers, Sequences, FiniteSets, TLC

VARIABLES
  currentView,      \* App: useState<ViewState>("text")            (line 16)
  isTransitioning,  \* App: useState(false)                        (line 17)
  pendingView,      \* App: useState<ViewState | null>(null)       (line 18)
  page,             \* App: useState([0, 0]), first component      (line 40)
  direction,        \* App: useState([0, 0]), second component     (line 40)
  mounted,          \* TransitionOverlay instance is mounted
  isActive,         \* TransitionOverlay prop of the latest render (line 177)
  effectLive,       \* the effect returned its cleanup, not yet run (line 294)
  surface,          \* what canvasRef.current / getContext gave    (lines 195-198)
  canvasWidth,      \* canvas.width                                (line 202)
  resizeListener,   \* window "resize" listener registered         (line 206)
  stars,            \* stars[i].z, in 1/Scale units                (line 210)
  speed,            \* speedRef.current, in 1/Scale units          (line 183)
  elapsed,          \* Date.now() - startTime, in ms               (lines 220, 232)
  rafPending,       \* a requestAnimationFrame(render) is pending  (line 280)
  middleTimer,      \* state of the setTimeout(..., 400)           (line 286)
  endTimer,         \* state of the setTimeout(..., 800)           (line 290)
  frames,           \* history: repaint frames of this activation
  middleCalls,      \* history: onTransitionMiddle calls of this activation
  endCalls,         \* history: onTransitionEnd calls of this activation
  cleanupAt,        \* history: elapsed when the cleanup ran, else -1
  lastOp,           \* history: the operation that produced this state
  scenario,         \* history: the cinematic transition in flight and the
                    \* requests issued since it started
  transitionFrom,   \* history: currentView at the accepted cinematic
                    \* request of the transition in flight, else none
  pendingMiddles,   \* history: accepted cinematic requests minus
                    \* onTransitionMiddle calls
  pendingEnds,      \* history: accepted cinematic requests minus
                    \* onTransitionEnd calls
  onRefs,           \* onMiddleRef.current, onEndRef.current: the callbacks
                    \* of the latest render                  (lines 185-190)
  effectProps,      \* the callbacks of the render whose effect is live
  calledMiddle,     \* history: the callback the 400ms timer called
  calledEnd         \* history: the callback the 800ms timer called

appVars == <<currentView, isTransitioning, pendingView, page, direction>>
overlayVars == <<mounted, isActive, effectLive, surface, canvasWidth,
                 resizeListener, stars, speed, elapsed, rafPending,
                 middleTimer, endTimer, frames, middleCalls, endCalls,
                 cleanupAt, onRefs, effectProps, calledMiddle, calledEnd>>
appHistory == <<scenario, transitionFrom, pendingMiddles, pendingEnds>>
vars == <<currentView, isTransitioning, pendingView, page, direction,
          mounted, isActive, effectLive, surface, canvasWidth,
          resizeListener, stars, speed, elapsed, rafPending,
          middleTimer, endTimer, frames, middleCalls, endCalls,
          cleanupAt, onRefs, effectProps, calledMiddle, calledEnd,
          lastOp, scenario, transitionFrom, pendingMiddles, pendingEnds>>

(***************************************************************************)
(* Bounds of the exploration.                                              *)
(***************************************************************************)
MaxDecay == 2
NumStars == 1
MaxFrames == 33
MaxFramesShort == 2
MaxPage == 2
TickMs == 200
MaxElapsed == 1000

(***************************************************************************)
(* Program constants.                                                      *)
(***************************************************************************)
MiddleDelay == 400
EndDelay == 800
AccelUntil == 400
DecelAfter == 600
SpeedStep == 5
SpeedCap == 150
DecayNum == 4
DecayDen == 5

Scale == 2 * (DecayDen ^ MaxDecay)
InitialSpeed == Scale \div 2
InitialRefSpeed == 0

none == "none"
ViewState == {"text", "voice", "camera"}
Surfaces == {"ok", "noCanvas", "noContext"}
Widths == {60, 800}
CallbackIds == {"cb1", "cb2"}
PageRange == (0 - MaxPage) .. MaxPage

\* Math.random() * canvas.width lies in [0, width): the least value, a
\* value the first frame brings to exactly 0, and the value next to width.
ZChoices(w) == {0, SpeedStep * Scale + InitialSpeed, w * Scale - 1}
StarFields(w) == [1 .. NumStars -> ZChoices(w)]

NoScenario == [kind |-> "none", before |-> FALSE, after |-> FALSE]

(***************************************************************************)
(* TransitionOverlay: the repaint frame (render, lines 223-281).           *)
(***************************************************************************)
\* NextSpeed without the cap of line 244.
NextSpeed_NoCap(s, el) ==
  IF el < AccelUntil THEN s + SpeedStep * Scale
  ELSE IF el > DecelAfter THEN (s * DecayNum) \div DecayDen
  ELSE s

\* Lines 232-244: the speed after the acceleration logic and the cap.
NextSpeed(s, el) ==
  LET s1 == IF el < AccelUntil THEN s + SpeedStep * Scale
            ELSE IF el > DecelAfter THEN (s * DecayNum) \div DecayDen
            ELSE s
  IN IF s1 > SpeedCap * Scale THEN SpeedCap * Scale ELSE s1

\* MoveStar with the test of line 255 written star.z < 0.
MoveStar_StrictReset(z, s, w) ==
  LET z1 == z - s
  IN IF z1 < 0 THEN w * Scale ELSE z1

\* Lines 252-259: move one star and reset it when it passed the camera.
MoveStar(z, s, w) ==
  LET z1 == z - s
  IN IF z1 <= 0 THEN w * Scale ELSE z1

\* Lines 248-277: the loop over the stars.
RenderStars(zs, s, w) == [i \in DOMAIN zs |-> MoveStar(zs[i], s, w)]

\* The product by 0.8 is exact in 1/Scale units.
Representable(s, el) ==
  el > DecelAfter => (s * DecayNum) % DecayDen = 0

\* Lines 223-281: one call of render() from speed s, depths zs, width w.
render(s, el, zs, w) ==
  /\ speed' = NextSpeed(s, el)
  /\ stars' = RenderStars(zs, NextSpeed(s, el), w)
  /\ rafPending' = TRUE

(***************************************************************************)
(* TransitionOverlay: the effect and its cleanup (lines 192-300).          *)
(***************************************************************************)
\* clearTimeout: a timer that has not fired will not fire.
clearTimeout(t) == IF t = "pending" THEN "cleared" ELSE t

\* cleanup without the clearTimeout(middleTimer) of line 297.
cleanup_KeepsMiddleTimer(mt, et) ==
  /\ resizeListener' = FALSE
  /\ rafPending' = FALSE
  /\ middleTimer' = mt
  /\ endTimer' = clearTimeout(et)
  /\ effectLive' = FALSE
  /\ cleanupAt' = elapsed

\* cleanup without the cancelAnimationFrame of line 296.
cleanup_KeepsFrame(mt, et) ==
  /\ resizeListener' = FALSE
  /\ UNCHANGED rafPending
  /\ middleTimer' = clearTimeout(mt)
  /\ endTimer' = clearTimeout(et)
  /\ effectLive' = FALSE
  /\ cleanupAt' = elapsed

\* Lines 294-299: the cleanup the effect returned, run when the timers
\* are in states mt and et.
cleanup(mt, et) ==
  /\ resizeListener' = FALSE
  /\ rafPending' = FALSE
  /\ middleTimer' = clearTimeout(mt)
  /\ endTimer' = clearTimeout(et)
  /\ effectLive' = FALSE
  /\ cleanupAt' = elapsed

\* runEffect with the timers of lines 286-292 set before the returns of
\* lines 196 and 198.
runEffect_TimersFirst(surf, w, zs) ==
  /\ surface' = surf
  /\ middleCalls' = 0
  /\ endCalls' = 0
  /\ cleanupAt' = 0 - 1
  /\ calledMiddle' = none
  /\ calledEnd' = none
  /\ UNCHANGED onRefs
  /\ middleTimer' = "pending"
  /\ endTimer' = "pending"
  /\ effectProps' = onRefs
  /\ IF surf = "ok"
       THEN /\ canvasWidth' = w
            /\ resizeListener' = TRUE
            /\ elapsed' = 0
            /\ render(InitialSpeed, 0, zs, w)
            /\ frames' = 1
            /\ effectLive' = TRUE
       ELSE /\ elapsed' = 0
            /\ UNCHANGED <<canvasWidth, resizeListener, speed, stars,
                           rafPending, frames, effectLive>>

\* Lines 192-292: the effect body run at a commit where isActive is true.
\* surf is what the canvas ref and getContext give, w is window.innerWidth
\* and zs are the depths Math.random() gives to the stars.
runEffect(surf, w, zs) ==
  /\ surface' = surf
  /\ middleCalls' = 0
  /\ endCalls' = 0
  /\ cleanupAt' = 0 - 1
  /\ calledMiddle' = none
  /\ calledEnd' = none
  /\ UNCHANGED onRefs
  /\ IF surf = "ok"
       THEN /\ canvasWidth' = w
            /\ resizeListener' = TRUE
            /\ elapsed' = 0
            /\ render(InitialSpeed, 0, zs, w)
            /\ frames' = 1
            /\ middleTimer' = "pending"
            /\ endTimer' = "pending"
            /\ effectLive' = TRUE
            /\ effectProps' = onRefs
       ELSE UNCHANGED <<canvasWidth, resizeListener, elapsed, speed, stars,
                        rafPending, frames, middleTimer, endTimer,
                        effectLive, effectProps>>

\* The commit of a render where isActive became false, or the unmount:
\* React runs the cleanup of the previous effect if it returned one; the
\* new effect returns at line 193.
stopEffect(mt, et) ==
  /\ IF effectLive
       THEN cleanup(mt, et)
       ELSE /\ middleTimer' = mt
            /\ endTimer' = et
            /\ UNCHANGED <<resizeListener, rafPending, effectLive, cleanupAt>>
  /\ UNCHANGED <<surface, canvasWidth, stars, speed, elapsed, frames,
                 onRefs, effectProps>>

(***************************************************************************)
(* App: the switch handlers (lines 43-76).                                 *)
(***************************************************************************)
\* paginate without the setCurrentView(newView) of line 45.
paginate_KeepsView(newDirection, newView) ==
  /\ page + newDirection \in PageRange
  /\ page' = page + newDirection
  /\ direction' = newDirection
  /\ UNCHANGED <<currentView, isTransitioning, pendingView>>
  /\ UNCHANGED overlayVars

\* Lines 43-46.
paginate(newDirection, newView) ==
  /\ page + newDirection \in PageRange
  /\ page' = page + newDirection
  /\ direction' = newDirection
  /\ currentView' = newView
  /\ UNCHANGED <<isTransitioning, pendingView>>
  /\ UNCHANGED overlayVars

\* triggerCinematicSwitch without the guard of line 50.
triggerCinematicSwitch_NoGuard(newView, newDirection) ==
  /\ page + newDirection \in PageRange
  /\ pendingView' = newView
  /\ page' = page + newDirection
  /\ direction' = newDirection
  /\ isTransitioning' = TRUE
  /\ UNCHANGED currentView
  /\ IF isActive
       THEN UNCHANGED overlayVars
       ELSE /\ isActive' = TRUE
            /\ UNCHANGED mounted
            /\ \E surf \in Surfaces, w \in Widths :
                 \E zs \in StarFields(w) : runEffect(surf, w, zs)

\* Lines 49-56, with the commit of <TransitionOverlay isActive={true}>,
\* where the effect runs with what the canvas, the window and
\* Math.random() give.
triggerCinematicSwitch(newView, newDirection) ==
  IF isTransitioning
    THEN UNCHANGED <<appVars, overlayVars>>
    ELSE /\ page + newDirection \in PageRange
         /\ pendingView' = newView
         /\ page' = page + newDirection
         /\ direction' = newDirection
         /\ isTransitioning' = TRUE
         /\ UNCHANGED currentView
         /\ isActive' = TRUE
         /\ UNCHANGED mounted
         /\ \E surf \in Surfaces, w \in Widths :
              \E zs \in StarFields(w) : runEffect(surf, w, zs)

\* handleSwitchToVoice with the test of line 60 written currentView !== "voice".
handleSwitchToVoice_FromAny ==
  IF currentView # "voice"
    THEN triggerCinematicSwitch("voice", 1)
    ELSE paginate(1, "voice")

\* Lines 58-65.
handleSwitchToVoice ==
  IF currentView = "text"
    THEN triggerCinematicSwitch("voice", 1)
    ELSE paginate(1, "voice")

\* Line 67.
handleSwitchToCamera == paginate(1, "camera")

\* handleSwitchToText with the direction of line 74 written 1.
handleSwitchToText_WrongDirection ==
  IF currentView = "voice"
    THEN triggerCinematicSwitch("text", 0 - 1)
    ELSE paginate(1, "text")

\* Lines 69-76.
handleSwitchToText ==
  IF currentView = "voice"
    THEN triggerCinematicSwitch("text", 0 - 1)
    ELSE paginate(0 - 1, "text")

\* onTransitionMiddle without the setPendingView(null) of line 88.
onTransitionMiddle_KeepsPending ==
  IF pendingView # none
    THEN /\ currentView' = pendingView
         /\ UNCHANGED pendingView
    ELSE UNCHANGED <<currentView, pendingView>>

\* onTransitionMiddle without the setCurrentView(pendingView) of line 87.
onTransitionMiddle_KeepsView ==
  IF pendingView # none
    THEN /\ UNCHANGED currentView
         /\ pendingView' = none
    ELSE UNCHANGED <<currentView, pendingView>>

\* Lines 85-90: the onTransitionMiddle closure of the latest render.
onTransitionMiddle ==
  IF pendingView # none
    THEN /\ currentView' = pendingView
         /\ pendingView' = none
    ELSE UNCHANGED <<currentView, pendingView>>

\* onTransitionEnd without the setIsTransitioning(false) of line 92.
onTransitionEnd_NoReset == UNCHANGED isTransitioning

\* Lines 91-93: the onTransitionEnd closure.
onTransitionEnd == isTransitioning' = FALSE

\* History: the transition in flight and the requests issued since.
ScenarioAfter(handler) ==
  IF ~isTransitioning
    THEN IF isTransitioning'
           THEN [kind |-> IF handler = "handleSwitchToVoice"
                            THEN "textToVoice" ELSE "voiceToText",
                 before |-> FALSE, after |-> FALSE]
           ELSE NoScenario
    ELSE LET reverse ==
               \/ scenario.kind = "textToVoice" /\ handler = "handleSwitchToText"
               \/ scenario.kind = "voiceToText" /\ handler = "handleSwitchToVoice"
         IN IF reverse
              THEN IF middleCalls = 0
                     THEN [scenario EXCEPT !.before = TRUE]
                     ELSE [scenario EXCEPT !.after = TRUE]
              ELSE [scenario EXCEPT !.kind = "mixed"]

\* History of a handler step: an accepted cinematic request (one that
\* finds isTransitioning false) is owed one call of each callback.
HistoryAfter(handler) ==
  /\ scenario' = ScenarioAfter(handler)
  /\ IF ~isTransitioning /\ isTransitioning'
       THEN /\ transitionFrom' = currentView
            /\ pendingMiddles' = pendingMiddles + 1
            /\ pendingEnds' = pendingEnds + 1
       ELSE UNCHANGED <<transitionFrom, pendingMiddles, pendingEnds>>

(***************************************************************************)
(* Initial state: App and TransitionOverlay just mounted, isActive false.  *)
(***************************************************************************)
Init ==
  /\ currentView = "text"
  /\ isTransitioning = FALSE
  /\ pendingView = none
  /\ page = 0
  /\ direction = 0
  /\ mounted = TRUE
  /\ isActive = FALSE
  /\ effectLive = FALSE
  /\ surface = "noCanvas"
  /\ canvasWidth = 0
  /\ resizeListener = FALSE
  /\ stars = [i \in 1 .. NumStars |-> 0]
  /\ speed = InitialRefSpeed
  /\ elapsed = 0
  /\ rafPending = FALSE
  /\ middleTimer = "unset"
  /\ endTimer = "unset"
  /\ frames = 0
  /\ middleCalls = 0
  /\ endCalls = 0
  /\ cleanupAt = 0 - 1
  /\ lastOp = "init"
  /\ scenario = NoScenario
  /\ transitionFrom = none
  /\ pendingMiddles = 0
  /\ pendingEnds = 0
  /\ onRefs = "cb1"
  /\ effectProps = "cb1"
  /\ calledMiddle = none
  /\ calledEnd = none

(***************************************************************************)
(* Actions of App with its TransitionOverlay.                              *)
(***************************************************************************)
HandleSwitchToVoice ==
  /\ handleSwitchToVoice
  /\ lastOp' = "handleSwitchToVoice"
  /\ HistoryAfter("handleSwitchToVoice")

HandleSwitchToText ==
  /\ handleSwitchToText
  /\ lastOp' = "handleSwitchToText"
  /\ HistoryAfter("handleSwitchToText")

HandleSwitchToCamera ==
  /\ handleSwitchToCamera
  /\ lastOp' = "handleSwitchToCamera"
  /\ HistoryAfter("handleSwitchToCamera")

\* middleTimerDue with half the delay of line 288.
middleTimerDue_Early ==
  /\ middleTimer = "pending"
  /\ elapsed >= MiddleDelay \div 2
  /\ ~(endTimer = "pending" /\ EndDelay < MiddleDelay \div 2)

\* Lines 286-288: the 400ms timer is due.  Timers set by one task fire in
\* the order of their delays, and in the order they were set when the
\* delays are equal.
middleTimerDue ==
  /\ middleTimer = "pending"
  /\ elapsed >= MiddleDelay
  /\ ~(endTimer = "pending" /\ EndDelay < MiddleDelay)

\* endTimerDue with a delay shorter than the delay of the middle timer.
endTimerDue_Short ==
  /\ endTimer = "pending"
  /\ elapsed >= MiddleDelay \div 2
  /\ ~(middleTimer = "pending" /\ MiddleDelay <= MiddleDelay \div 2)

\* Lines 290-292: the 800ms timer is due.
endTimerDue ==
  /\ endTimer = "pending"
  /\ elapsed >= EndDelay
  /\ ~(middleTimer = "pending" /\ MiddleDelay <= EndDelay)

\* setTimeout with an interval in place of a one-shot timer.
afterFire_Interval == "pending"

\* Lines 286 and 290: setTimeout timers fire once.
afterFire == "fired"

\* The timer calls the callback of the render whose effect set the timer.
timerCallee_Captured == effectProps

\* Lines 287 and 291: the timer calls the current value of the ref.
timerCallee == onRefs

\* The 400ms timer fires and calls onMiddleRef.current, here App's
\* onTransitionMiddle.
MiddleTimerApp ==
  /\ middleTimerDue
  /\ middleTimer' = afterFire
  /\ middleCalls' = middleCalls + 1
  /\ calledMiddle' = timerCallee
  /\ onTransitionMiddle
  /\ UNCHANGED <<isTransitioning, page, direction>>
  /\ UNCHANGED <<mounted, isActive, effectLive, surface, canvasWidth,
                 resizeListener, stars, speed, elapsed, rafPending,
                 endTimer, frames, endCalls, cleanupAt, onRefs,
                 effectProps, calledEnd>>
  /\ lastOp' = "middleTimer"
  /\ pendingMiddles' = pendingMiddles - 1
  /\ UNCHANGED <<scenario, transitionFrom, pendingEnds>>

\* The 800ms timer fires and calls onEndRef.current, here App's
\* onTransitionEnd; the render it causes passes isActive = false and the
\* commit runs the cleanup.
EndTimerApp ==
  /\ endTimerDue
  /\ endCalls' = endCalls + 1
  /\ onTransitionEnd
  /\ UNCHANGED <<currentView, pendingView, page, direction>>
  /\ calledEnd' = timerCallee
  /\ isActive' = FALSE
  /\ stopEffect(middleTimer, afterFire)
  /\ UNCHANGED <<mounted, middleCalls, calledMiddle>>
  /\ lastOp' = "endTimer"
  /\ pendingEnds' = pendingEnds - 1
  /\ transitionFrom' = none
  /\ UNCHANGED <<scenario, pendingMiddles>>

\* Line 280: the animation frame callback runs render().
Frame(maxFrames) ==
  /\ rafPending
  /\ frames < maxFrames
  /\ Representable(speed, elapsed)
  /\ render(speed, elapsed, stars, canvasWidth)
  /\ frames' = frames + 1
  /\ UNCHANGED appVars
  /\ UNCHANGED <<mounted, isActive, effectLive, surface, canvasWidth,
                 resizeListener, elapsed, middleTimer, endTimer,
                 middleCalls, endCalls, cleanupAt, onRefs, effectProps,
                 calledMiddle, calledEnd>>
  /\ lastOp' = "render"
  /\ UNCHANGED appHistory

\* The repaint loop, followed for a few frames.
RenderFrame == Frame(MaxFramesShort)

\* Lines 201-206: the window resize listener.
Resize ==
  /\ resizeListener
  /\ \E w \in Widths : canvasWidth' = w
  /\ UNCHANGED appVars
  /\ UNCHANGED <<mounted, isActive, effectLive, surface, resizeListener,
                 stars, speed,
                 elapsed, rafPending, middleTimer, endTimer, frames,
                 middleCalls, endCalls, cleanupAt, onRefs, effectProps,
                 calledMiddle, calledEnd>>
  /\ lastOp' = "resize"
  /\ UNCHANGED appHistory

\* Time passes.  Only the repaint frame and the timers read the clock, so
\* the steps of the clock are explored while one of them is scheduled.
Tick ==
  /\ rafPending \/ middleTimer = "pending" \/ endTimer = "pending"
  /\ elapsed + TickMs <= MaxElapsed
  /\ elapsed' = elapsed + TickMs
  /\ UNCHANGED appVars
  /\ UNCHANGED <<mounted, isActive, effectLive, surface, canvasWidth,
                 resizeListener, stars, speed, rafPending, middleTimer,
                 endTimer, frames, middleCalls, endCalls, cleanupAt,
                 onRefs, effectProps, calledMiddle, calledEnd>>
  /\ lastOp' = "tick"
  /\ UNCHANGED appHistory

Next ==
  \/ HandleSwitchToVoice
  \/ HandleSwitchToText
  \/ HandleSwitchToCamera
  \/ MiddleTimerApp
  \/ EndTimerApp
  \/ RenderFrame
  \/ Resize
  \/ Tick

Spec == Init /\ [][Next]_vars

\* The event loop runs a timer that is due, and time passes.
FairSpec ==
  /\ Spec
  /\ WF_vars(Tick)
  /\ WF_vars(MiddleTimerApp)
  /\ WF_vars(EndTimerApp)

(***************************************************************************)
(* Actions of TransitionOverlay under any host: the host chooses isActive, *)
(* may unmount the component, and its callbacks are only counted.          *)
(***************************************************************************)
\* The host renders isActive = true (lines 192-292 run at the commit).
Activate ==
  /\ mounted
  /\ ~isActive
  /\ isActive' = TRUE
  /\ \E surf \in Surfaces, w \in Widths :
       \E zs \in StarFields(w) : runEffect(surf, w, zs)
  /\ UNCHANGED mounted
  /\ UNCHANGED appVars
  /\ lastOp' = "activate"
  /\ UNCHANGED appHistory

\* The host renders isActive = false (line 300: the effect depends on
\* isActive, so the cleanup of lines 294-299 runs).
Deactivate ==
  /\ mounted
  /\ isActive
  /\ isActive' = FALSE
  /\ stopEffect(middleTimer, endTimer)
  /\ UNCHANGED <<mounted, middleCalls, endCalls, calledMiddle, calledEnd>>
  /\ UNCHANGED appVars
  /\ lastOp' = "deactivate"
  /\ UNCHANGED appHistory

\* The host unmounts the component: React runs the cleanup.
Unmount ==
  /\ mounted
  /\ mounted' = FALSE
  /\ stopEffect(middleTimer, endTimer)
  /\ UNCHANGED <<isActive, middleCalls, endCalls, calledMiddle, calledEnd>>
  /\ UNCHANGED appVars
  /\ lastOp' = "unmount"
  /\ UNCHANGED appHistory

\* Lines 286-288 with the host's onTransitionMiddle.
MiddleTimerHost ==
  /\ middleTimerDue
  /\ middleTimer' = afterFire
  /\ middleCalls' = middleCalls + 1
  /\ calledMiddle' = timerCallee
  /\ UNCHANGED appVars
  /\ UNCHANGED <<mounted, isActive, effectLive, surface, canvasWidth,
                 resizeListener, stars, speed, elapsed, rafPending,
                 endTimer, frames, endCalls, cleanupAt, onRefs,
                 effectProps, calledEnd>>
  /\ lastOp' = "middleTimer"
  /\ UNCHANGED appHistory

\* Lines 290-292 with the host's onTransitionEnd, which may or may not
\* render isActive = false.
EndTimerHost ==
  /\ endTimerDue
  /\ endCalls' = endCalls + 1
  /\ calledEnd' = timerCallee
  /\ \E deactivate \in BOOLEAN :
       IF deactivate
         THEN /\ isActive' = FALSE
              /\ stopEffect(middleTimer, afterFire)
         ELSE /\ endTimer' = afterFire
              /\ UNCHANGED <<isActive, effectLive, surface, canvasWidth,
                             resizeListener, stars, speed, elapsed,
                             rafPending, middleTimer, frames, cleanupAt,
                             onRefs, effectProps>>
  /\ UNCHANGED <<mounted, middleCalls, calledMiddle>>
  /\ UNCHANGED appVars
  /\ lastOp' = "endTimer"
  /\ UNCHANGED appHistory

\* The host renders again with the same isActive and with callbacks of
\* its choice: lines 189-190 store them, and the effect, whose only
\* dependency is isActive (line 300), does not run.
Rerender ==
  /\ mounted
  /\ \E cb \in CallbackIds : onRefs' = cb
  /\ UNCHANGED <<mounted, isActive, effectLive, surface, canvasWidth,
                 resizeListener, stars, speed, elapsed, rafPending,
                 middleTimer, endTimer, frames, middleCalls, endCalls,
                 cleanupAt, effectProps, calledMiddle, calledEnd>>
  /\ UNCHANGED appVars
  /\ lastOp' = "rerender"
  /\ UNCHANGED appHistory

OverlayNext ==
  \/ Activate
  \/ Deactivate
  \/ Unmount
  \/ MiddleTimerHost
  \/ EndTimerHost
  \/ Rerender
  \/ RenderFrame
  \/ Resize
  \/ Tick

OverlaySpec == Init /\ [][OverlayNext]_vars

\* The event loop runs a timer that is due, and time passes.
FairOverlaySpec ==
  /\ OverlaySpec
  /\ WF_vars(Tick)
  /\ WF_vars(MiddleTimerHost)
  /\ WF_vars(EndTimerHost)

(***************************************************************************)
(* The repaint loop of one activation, followed for MaxFrames frames.      *)
(***************************************************************************)
RenderFrameLong == Frame(MaxFrames)

RenderNext ==
  \/ Activate
  \/ RenderFrameLong
  \/ Resize
  \/ Tick

RenderSpec == Init /\ [][RenderNext]_vars

(***************************************************************************)
(* Properties.                                                             *)
(***************************************************************************)
Handlers == {"handleSwitchToVoice", "handleSwitchToText", "handleSwitchToCamera"}

Target(handler) ==
  IF handler = "handleSwitchToVoice" THEN "voice"
  ELSE IF handler = "handleSwitchToText" THEN "text"
  ELSE "camera"

\* C1: in an activation with the canvas available, onTransitionMiddle and
\* onTransitionEnd are each called at most once, onTransitionEnd is called
\* only after onTransitionMiddle, an activation whose end timer fired has
\* had exactly one call of each, and an activation that stays active and
\* mounted does get its onTransitionEnd call.
C1_OncePerActivationInOrder ==
  /\ [](/\ middleCalls <= 1
        /\ endCalls <= 1
        /\ (endCalls = 1 => middleCalls = 1)
        /\ ((surface = "ok" /\ endTimer = "fired") =>
              (middleCalls = 1 /\ endCalls = 1)))
  /\ ((effectLive /\ endCalls = 0) ~> (endCalls = 1 \/ ~effectLive))

C1_Witness ==
  /\ mounted /\ isActive /\ effectLive
  /\ middleCalls = 1 /\ endCalls = 1
  /\ lastOp = "endTimer"

\* C2: once the cleanup of an activation has run, no timer of that
\* activation is pending and no callback is called any more; a cleanup
\* before 400ms leaves both callbacks uncalled, and a cleanup before 800ms
\* leaves onTransitionEnd uncalled.
C2_NoCallbackAfterCleanup ==
  /\ [](cleanupAt >= 0 =>
          /\ middleTimer # "pending"
          /\ endTimer # "pending"
          /\ (cleanupAt < MiddleDelay => (middleCalls = 0 /\ endCalls = 0))
          /\ (cleanupAt < EndDelay => endCalls = 0))
  /\ [][cleanupAt >= 0 =>
          (middleCalls' <= middleCalls /\ endCalls' <= endCalls)]_vars

C2_Witness ==
  /\ lastOp \in {"deactivate", "unmount"}
  /\ cleanupAt >= 0 /\ cleanupAt < MiddleDelay
  /\ middleTimer = "cleared" /\ endTimer = "cleared"
  /\ middleCalls = 0 /\ endCalls = 0

\* C3 (as claimed): a switch request made while isTransitioning is true
\* leaves currentView and pendingView unchanged.
C3_RequestIgnoredWhileTransitioning ==
  [][(isTransitioning /\ lastOp' \in Handlers) =>
       (currentView' = currentView /\ pendingView' = pendingView)]_vars

\* C4: when onTransitionEnd has fired for a cinematic transition started
\* by handleSwitchToVoice from text, during which only handleSwitchToText
\* requests were issued, currentView is voice, pendingView is none and
\* isTransitioning is false; symmetrically for voice to text with
\* handleSwitchToVoice requests.
C4_ReverseRequestsDoNotChangeOutcome ==
  /\ (lastOp = "endTimer" /\ scenario.kind = "textToVoice") =>
       (currentView = "voice" /\ pendingView = none /\ ~isTransitioning)
  /\ (lastOp = "endTimer" /\ scenario.kind = "voiceToText") =>
       (currentView = "text" /\ pendingView = none /\ ~isTransitioning)

C4_Witness ==
  /\ lastOp = "endTimer"
  /\ scenario = [kind |-> "textToVoice", before |-> TRUE, after |-> TRUE]
  /\ currentView = "voice"

\* C5: pendingView is a single slot that is non-null only while
\* isTransitioning is true.
C5_PendingOnlyWhileTransitioning ==
  /\ pendingView \in ViewState \cup {none}
  /\ (pendingView # none => isTransitioning)

C5_Witness ==
  /\ pendingView # none
  /\ isTransitioning
  /\ lastOp = "handleSwitchToCamera"
  /\ middleTimer = "pending"

C7_CinematicExactlyTextVoice ==
  [][lastOp' \in Handlers =>
       IF \/ lastOp' = "handleSwitchToVoice" /\ currentView = "text"
          \/ lastOp' = "handleSwitchToText" /\ currentView = "voice"
         THEN IF isTransitioning
                THEN UNCHANGED <<appVars, overlayVars>>
                ELSE /\ pendingView' = Target(lastOp')
                     /\ isTransitioning' /\ isActive'
                     /\ currentView' = currentView
         ELSE /\ currentView' = Target(lastOp')
              /\ isTransitioning' = isTransitioning
              /\ pendingView' = pendingView
              /\ UNCHANGED overlayVars]_vars

C7_Witness ==
  /\ lastOp = "handleSwitchToText"
  /\ currentView = "voice"
  /\ pendingView = "text"
  /\ isTransitioning /\ isActive
  /\ middleCalls = 0

\* C8: when the canvas or its 2D context is missing at activation, nothing
\* is scheduled (no frame, no resize listener, no timer), no callback is
\* called, and App stays with isTransitioning true and pendingView set:
\* later cinematic requests are ignored.
C8_NoSurfaceSchedulesNothing ==
  /\ []((isTransitioning /\ surface # "ok") =>
          /\ ~effectLive /\ ~rafPending /\ ~resizeListener
          /\ middleTimer # "pending" /\ endTimer # "pending"
          /\ middleCalls = 0 /\ endCalls = 0
          /\ pendingView # none)
  /\ [][(isTransitioning /\ surface # "ok") =>
          /\ isTransitioning'
          /\ surface' = surface
          /\ pendingView' = pendingView]_vars

C8_Witness ==
  /\ isTransitioning
  /\ surface = "noContext"
  /\ pendingView = "voice"
  /\ currentView = "text"
  /\ lastOp = "handleSwitchToVoice"
  /\ scenario.kind = "mixed"

CinematicRequest(handler) ==
  \/ handler = "handleSwitchToVoice" /\ currentView = "text"
  \/ handler = "handleSwitchToText" /\ currentView = "voice"

\* The direction each handler passes (lines 61-74).
Dir(handler) == IF handler = "handleSwitchToText" THEN 0 - 1 ELSE 1

\* C11: in an activation with the canvas available the midpoint callback
\* is not called before 400ms and the end callback not before 800ms; the
\* call counts are (0, 0) before 400ms, (1, 0) once the middle timer has
\* fired and until the end timer fires, and (1, 1) afterwards.
C11_CallbacksNotEarly ==
  surface = "ok" =>
    /\ (middleCalls >= 1 => elapsed >= MiddleDelay)
    /\ (endCalls >= 1 => elapsed >= EndDelay)
    /\ (elapsed < MiddleDelay => (middleCalls = 0 /\ endCalls = 0))
    /\ (middleTimer = "pending" => (middleCalls = 0 /\ endCalls = 0))
    /\ ((middleTimer = "fired" /\ endTimer # "fired") =>
          (middleCalls = 1 /\ endCalls = 0))
    /\ (endTimer = "fired" => (middleCalls = 1 /\ endCalls = 1))

C11_Witness ==
  /\ surface = "ok" /\ isActive /\ effectLive
  /\ lastOp = "middleTimer"
  /\ elapsed = MiddleDelay
  /\ middleCalls = 1 /\ endCalls = 0
  /\ endTimer = "pending"

\* C12 (as claimed): once the midpoint callback of a cinematic transition
\* from view S has fired, currentView is not S while the transition is
\* still active.
C12_OldViewNotShownAgain ==
  (isTransitioning /\ middleCalls = 1 /\ transitionFrom # none) =>
    currentView # transitionFrom

C14_TransitionCompletes ==
  /\ ((isTransitioning /\ surface = "ok") ~>
        (~isTransitioning /\ pendingView = none /\ ~isActive))
  /\ [](isActive = isTransitioning)
  /\ [][(~isTransitioning /\ endCalls = 1 /\ lastOp' \in Handlers
           /\ CinematicRequest(lastOp')) =>
          (isTransitioning' /\ isActive' /\ pendingView' = Target(lastOp'))]_vars

C14_Witness ==
  /\ lastOp = "endTimer"
  /\ ~isTransitioning /\ ~isActive
  /\ pendingView = none
  /\ scenario.kind = "voiceToText"
  /\ currentView = "text"

\* C15: when no effect is live (before activation, after the cleanup) no
\* frame is pending, no resize listener is registered and no timer is
\* pending, so speed, depths and canvas width do not change; a resize
\* listener exists only while an effect that found its canvas is live.
C15_CleanupReleasesAll ==
  /\ [](~effectLive =>
          /\ ~rafPending /\ ~resizeListener
          /\ middleTimer # "pending" /\ endTimer # "pending")
  /\ [](resizeListener => (effectLive /\ surface = "ok" /\ cleanupAt < 0))
  /\ [][(~effectLive /\ ~effectLive') =>
          UNCHANGED <<speed, stars, canvasWidth, frames>>]_vars

C15_Witness ==
  /\ lastOp = "deactivate"
  /\ cleanupAt >= MiddleDelay
  /\ frames >= 2
  /\ middleTimer = "fired" /\ endTimer = "cleared"
  /\ ~rafPending /\ ~resizeListener

\* C16: a timer calls the callback of the latest render, and a render with
\* new callbacks while the overlay is active leaves the effect as it is:
\* timers, start time, particle field, frame loop and call counts are
\* unchanged, and each callback is still called at most once.
C16_LatestCallbackNoRestart ==
  /\ [](middleCalls <= 1 /\ endCalls <= 1)
  /\ [][lastOp' = "middleTimer" => calledMiddle' = onRefs]_vars
  /\ [][lastOp' = "endTimer" => calledEnd' = onRefs]_vars
  /\ [][lastOp' = "rerender" =>
          UNCHANGED <<effectLive, middleTimer, endTimer, elapsed, stars,
                      speed, frames, rafPending, resizeListener,
                      canvasWidth, middleCalls, endCalls>>]_vars

C16_Witness ==
  /\ lastOp = "middleTimer"
  /\ effectProps = "cb1"
  /\ calledMiddle = "cb2"
  /\ middleCalls = 1

\* C17 (as claimed): after every repaint frame every particle has
\* 0 < z <= canvas.width, whatever resizes happened between the frames.
C17_DepthWithinWidth ==
  (lastOp \in {"activate", "render"} /\ effectLive) =>
    \A i \in DOMAIN stars :
      stars[i] > 0 /\ stars[i] <= canvasWidth * Scale

\* C18: midpoint calls and end calls never exceed the accepted cinematic
\* requests, end calls never exceed midpoint calls, all three are equal
\* while isTransitioning is false, and an accepted request whose effect
\* finds its canvas starts with both timers pending, elapsed 0, no call
\* counted and the speed of a first frame from 0.5.
C18_CallsMatchAcceptedRequests ==
  /\ [](/\ pendingMiddles \in {0, 1}
        /\ pendingEnds \in {0, 1}
        /\ pendingMiddles <= pendingEnds
        /\ (~isTransitioning => (pendingMiddles = 0 /\ pendingEnds = 0)))
  /\ [][(lastOp' \in Handlers /\ ~isTransitioning /\ isTransitioning'
           /\ surface' = "ok") =>
          /\ middleTimer' = "pending" /\ endTimer' = "pending"
          /\ elapsed' = 0
          /\ middleCalls' = 0 /\ endCalls' = 0
          /\ speed' = InitialSpeed + SpeedStep * Scale]_vars

C18_Witness ==
  /\ lastOp = "handleSwitchToText"
  /\ isTransitioning /\ surface = "ok"
  /\ transitionFrom = "voice"
  /\ pendingMiddles = 1 /\ pendingEnds = 1
  /\ frames = 1
  /\ calledEnd = none

\* C19: a cinematic request made while isTransitioning is true leaves
\* currentView, isTransitioning, pendingView, page and direction
\* unchanged; every other request replaces [page, direction] by
\* [page + d, d], with d = -1 for handleSwitchToText and +1 otherwise.
C19_PageAndDirection ==
  [][lastOp' \in Handlers =>
       IF CinematicRequest(lastOp') /\ isTransitioning
         THEN UNCHANGED appVars
         ELSE /\ page' = page + Dir(lastOp')
              /\ direction' = Dir(lastOp')]_vars

C19_Witness ==
  /\ lastOp = "handleSwitchToText"
  /\ isTransitioning
  /\ scenario.kind = "textToVoice" /\ scenario.after
  /\ currentView = "voice"
  /\ page = 1 /\ direction = 1

====
